---- MODULE Spec2Model ----
(***************************************************************************)
(* rta-watchtower: the ticket aggregation of lib/zendesk (fetchTicketData, *)
(* the revision that DashboardPage.tsx imports: it exports THRESHOLDS and  *)
(* the totalNew/newEmail/... fields) and the dashboard's refresh cycle and *)
(* filter projection (DashboardPage.tsx: loadData, processedData).         *)
(*                                                                         *)
(* Times are whole seconds; null ids are 0 (Zendesk ids are positive, and  *)
(* the code itself maps a null group_id to 0 with `t.group_id || 0`).      *)
(***************************************************************************)
EXTENDS Integers, Sequences, FiniteSets, TLC

VARIABLES
    client,            \* zaf.ts `client`: TRUE when ZAFClient.init() bound one
    srv,               \* the collaborators' scenario (what search can serve)
    net,               \* history, per refresh cycle: requests issued / answered
    call,              \* per refresh cycle: the locals and position of its
                       \* loadData / fetchTicketData invocation
    last,              \* history: the cycle that ended last (0: none has)
    rawData,           \* DashboardPage state
    loading,
    lastUpdated,       \* 0: null; else the number of cycles ended when it was set
    selectedGroupIds,
    storage,           \* localStorage['rta_filter_groups']
    sortConfig

vars == <<client, srv, net, call, last, rawData, loading, lastUpdated,
          selectedGroupIds, storage, sortConfig>>

(***************************************************************************)
(* Bounds of the model                                                     *)
(***************************************************************************)
MaxTickets == 2      \* tickets the search collaborator holds in the fold scenario
SmallPage == 1       \* page length of a collaborator that serves short pages
BigPage == 21        \* page length of a collaborator that serves long pages
MaxCycles == 3       \* loadData invocations (mount, ticks, clicks) in one behaviour

(***************************************************************************)
(* Program constants                                                       *)
(***************************************************************************)
WAIT_TIME_BREACH == 30
HANDLE_TIME_BREACH == 20
MaxPages == 50
CapTickets == 1000
NullId == 0

MESSAGING == {"messaging", "native_messaging", "chat", "facebook", "facebook_messenger",
              "instagram_direct", "line", "whatsapp", "twitter", "twitter_dm",
              "sms", "sunshine_conversations_api", "any_channel"}

Null == [null |-> TRUE]

(***************************************************************************)
(* Inputs: the registry's groups, the aggregation time and the tickets the *)
(* search collaborator can serve                                           *)
(***************************************************************************)
Now == 100000

G5 == [id |-> 5, name |-> "Support"]
G7 == [id |-> 7, name |-> "Billing"]
GroupListings == {<<G5, G7>>, <<G7, G5>>}
KnownIds == {5, 7}
StaleId == 9
FutureMinutes == 2

\* created_at / updated_at values, as seconds before Now
Ago(min, sec) == Now - (60 * min + sec)

Tpl(st, as, g, cr, up, ch) ==
    [status |-> st, assignee_id |-> as, group_id |-> g,
     created_at |-> cr, updated_at |-> up, channel |-> ch]

NewPool ==
    {Tpl("new", NullId, 5, cr, cr, ch) : cr \in {Ago(30, 59), Ago(31, 0)}, ch \in {"chat", "email"}}
    \cup {Tpl("new", 42, 5, Ago(31, 0), Ago(31, 0), "chat"),
          Tpl("new", NullId, 7, Ago(31, 0), Ago(31, 0), "email")}

OpenPool ==
    {Tpl("open", 42, 5, Ago(45, 0), up, ch) : up \in {Ago(20, 59), Ago(21, 0)}, ch \in {"whatsapp", "web"}}
    \cup {Tpl("open", NullId, 7, Ago(45, 0), Ago(21, 0), "email")}

OtherPool ==
    {Tpl("pending", NullId, 5, Ago(45, 0), Ago(40, 0), "chat"),
     Tpl("solved", NullId, 5, Ago(45, 0), Ago(40, 0), "chat"),
     Tpl("new", NullId, StaleId, Ago(31, 0), Ago(31, 0), "chat"),
     Tpl("open", NullId, NullId, Ago(45, 0), Ago(21, 0), "chat")}

TicketPool == NewPool \cup OpenPool \cup OtherPool

\* what one ticket of a search can look like from one refresh to the next
ChangingPool ==
    {Tpl("new", NullId, 5, Ago(31, 0), Ago(31, 0), "email"),
     Tpl("open", 42, 7, Ago(40, 0), Ago(21, 0), "chat")}

\* tickets stamped after the aggregation time (the clocks of the collaborator
\* and of the browser differ), next to tickets of either known group
SkewPool ==
    {Tpl("new", NullId, 5, Ago(31, 0), Ago(31, 0), "email"),
     Tpl("new", NullId, 5, Now + 60 * FutureMinutes, Now + 60 * FutureMinutes, "chat"),
     Tpl("open", 42, 7, Ago(45, 0), Now + 60 * FutureMinutes, "email")}

BulkTicket == Tpl("new", NullId, 5, Ago(31, 0), Ago(31, 0), "chat")

MkTicket(tpl, id) ==
    [id |-> id, status |-> tpl.status, assignee_id |-> tpl.assignee_id,
     group_id |-> tpl.group_id, created_at |-> tpl.created_at,
     updated_at |-> tpl.updated_at, channel |-> tpl.channel]

(***************************************************************************)
(* lib/zendesk: pure parts                                                 *)
(***************************************************************************)
\* date-fns differenceInMinutes: the difference in minutes, truncated toward 0
differenceInMinutes(l, r) ==
    LET d == l - r
    IN  IF d >= 0 THEN d \div 60 ELSE -((-d) \div 60)

\* CHANNELS.MESSAGING.includes(t.via.channel)
isMessagingUnlessEmail(ch) == ch # "email"
isMessaging(ch) == ch \in MESSAGING

ZeroGroupMetric(g) ==
    [id |-> g.id, name |-> g.name,
     longestEmailWait |-> 0, longestMsgWait |-> 0, longestEmailAHT |-> 0, longestMsgAHT |-> 0,
     newEmail |-> 0, newMsg |-> 0, openEmail |-> 0, openMsg |-> 0,
     pendingTickets |-> 0, breachedWait |-> 0, breachedAHT |-> 0, totalBreached |-> 0]

\* groupMap is a Map: here the sequence of its values in insertion order
MapHas(gm, k) == \E i \in 1..Len(gm) : gm[i].id = k
MapIndex(gm, k) == CHOOSE i \in 1..Len(gm) : gm[i].id = k
MapSet(gm, v) ==
    IF MapHas(gm, v.id) THEN [gm EXCEPT ![MapIndex(gm, v.id)] = v] ELSE Append(gm, v)

SeqToSet(s) == {s[i] : i \in 1..Len(s)}

\* `if (targetGroupIds.length > 0 && !targetGroupIds.includes(g.id)) return;`
IsTargetedAlways(g, targetGroupIds) == TRUE
IsTargeted(g, targetGroupIds) ==
    ~(Len(targetGroupIds) > 0 /\ g.id \notin SeqToSet(targetGroupIds))

\* allGroups.forEach(...) of fetchTicketData, step 1
RECURSIVE SeedGroups(_, _, _)
SeedGroups(allGroups, targetGroupIds, gm) ==
    IF allGroups = <<>> THEN gm
    ELSE LET g == Head(allGroups)
         IN  IF ~IsTargeted(g, targetGroupIds)
             THEN SeedGroups(Tail(allGroups), targetGroupIds, gm)
             ELSE SeedGroups(Tail(allGroups), targetGroupIds, MapSet(gm, ZeroGroupMetric(g)))

ZeroMetrics(isCapped) ==
    [longestWait |-> [time |-> 0, ticketId |-> 0],
     longestHandle |-> [time |-> 0, ticketId |-> 0],
     totalNew |-> 0, totalOpen |-> 0, breachedWaitCount |-> 0, breachedHandleCount |-> 0,
     groups |-> <<>>, isCapped |-> isCapped]

ResolveGroupId(t) == IF t.group_id = NullId THEN 0 ELSE t.group_id

IsCappedOf(allTickets) == Len(allTickets) >= CapTickets

WaitBreachedAtThreshold(waitTime) == waitTime >= WAIT_TIME_BREACH
WaitBreached(waitTime) == waitTime > WAIT_TIME_BREACH
HandleBreachedAtThreshold(handleTime) == handleTime >= HANDLE_TIME_BREACH
HandleBreached(handleTime) == handleTime > HANDLE_TIME_BREACH

\* `if (t.assignee_id === null)`
IsUnassignedOrNot(t) == TRUE
IsUnassigned(t) == t.assignee_id = NullId

\* `if (waitTime > metrics.longestWait.time)` and its like
ExceedsOrTies(time, longest) == time >= longest
Exceeds(time, longest) == time > longest

\* metrics.totalNew++
IncTotalNewIfUnassigned(m, t) ==
    IF t.assignee_id = NullId THEN [m EXCEPT !.totalNew = @ + 1] ELSE m
IncTotalNew(m, t) == [m EXCEPT !.totalNew = @ + 1]

\* gMetric.breachedAHT++; gMetric.totalBreached++
IncHandleBreachTotalOnly(g) == [g EXCEPT !.totalBreached = @ + 1]
IncHandleBreach(g) == [g EXCEPT !.breachedAHT = @ + 1, !.totalBreached = @ + 1]

\* gMetric.breachedWait++; gMetric.totalBreached++
IncWaitBreachOnly(g) == [g EXCEPT !.breachedWait = @ + 1]
IncWaitBreach(g) == [g EXCEPT !.breachedWait = @ + 1, !.totalBreached = @ + 1]

\* `isMessaging ? gMetric.openMsg++ : gMetric.openEmail++`
IncOpenCountMsgOnly(g, t) ==
    IF isMessaging(t.channel) THEN [g EXCEPT !.openMsg = @ + 1] ELSE g
IncOpenCount(g, t) ==
    IF isMessaging(t.channel) THEN [g EXCEPT !.openMsg = @ + 1]
                              ELSE [g EXCEPT !.openEmail = @ + 1]

\* the `new` branch of the forEach body
FoldNew(m, g, t, waitTime) ==
    LET m1 == IncTotalNew(m, t)
        g1 == IF isMessaging(t.channel) THEN [g EXCEPT !.newMsg = @ + 1]
                                         ELSE [g EXCEPT !.newEmail = @ + 1]
    IN  IF ~IsUnassigned(t) THEN [metrics |-> m1, gMetric |-> g1]
        ELSE
        LET m2 == IF Exceeds(waitTime, m1.longestWait.time)
                  THEN [m1 EXCEPT !.longestWait = [time |-> waitTime, ticketId |-> t.id]]
                  ELSE m1
            g2 == IF isMessaging(t.channel)
                  THEN (IF Exceeds(waitTime, g1.longestMsgWait) THEN [g1 EXCEPT !.longestMsgWait = waitTime] ELSE g1)
                  ELSE (IF Exceeds(waitTime, g1.longestEmailWait) THEN [g1 EXCEPT !.longestEmailWait = waitTime] ELSE g1)
        IN  IF WaitBreached(waitTime)
            THEN [metrics |-> [m2 EXCEPT !.breachedWaitCount = @ + 1],
                  gMetric |-> IncWaitBreach(g2)]
            ELSE [metrics |-> m2, gMetric |-> g2]

\* `if (isMessaging) { if (handleTime > gMetric.longestMsgAHT) ... } else { ... }`
TrackGroupHandleEmailOnly(g, t, handleTime) ==
    IF isMessaging(t.channel) THEN g
    ELSE (IF Exceeds(handleTime, g.longestEmailAHT) THEN [g EXCEPT !.longestEmailAHT = handleTime] ELSE g)
TrackGroupHandle(g, t, handleTime) ==
    IF isMessaging(t.channel)
    THEN (IF Exceeds(handleTime, g.longestMsgAHT) THEN [g EXCEPT !.longestMsgAHT = handleTime] ELSE g)
    ELSE (IF Exceeds(handleTime, g.longestEmailAHT) THEN [g EXCEPT !.longestEmailAHT = handleTime] ELSE g)

\* the `open` branch of the forEach body
FoldOpen(m, g, t, handleTime) ==
    LET m1 == [m EXCEPT !.totalOpen = @ + 1]
        g1 == IncOpenCount(g, t)
        m2 == IF Exceeds(handleTime, m1.longestHandle.time)
              THEN [m1 EXCEPT !.longestHandle = [time |-> handleTime, ticketId |-> t.id]]
              ELSE m1
        g2 == TrackGroupHandle(g1, t, handleTime)
    IN  IF HandleBreached(handleTime)
        THEN [metrics |-> [m2 EXCEPT !.breachedHandleCount = @ + 1],
              gMetric |-> IncHandleBreach(g2)]
        ELSE [metrics |-> m2, gMetric |-> g2]

\* `if (t.status === 'open')`
IsOpenOrOther(t) == t.status # "new"
IsOpen(t) == t.status = "open"

\* `if (!groupMap.has(gId)) return;`
SkipTicketButCount(m, gm, t) ==
    [metrics |-> [m EXCEPT !.totalNew = @ + (IF t.status = "new" THEN 1 ELSE 0),
                           !.totalOpen = @ + (IF t.status = "open" THEN 1 ELSE 0)],
     groupMap |-> gm]
SkipTicket(m, gm, t) == [metrics |-> m, groupMap |-> gm]

\* one iteration of allTickets.forEach: the metrics and groupMap after ticket t
FoldTicket(m, gm, t, now) ==
    LET gId == ResolveGroupId(t)
    IN  IF ~MapHas(gm, gId) THEN SkipTicket(m, gm, t)
        ELSE
        LET i == MapIndex(gm, gId)
            waitTime == differenceInMinutes(now, t.created_at)
            handleTime == differenceInMinutes(now, t.updated_at)
            r == IF t.status = "new" THEN FoldNew(m, gm[i], t, waitTime)
                 ELSE IF IsOpen(t) THEN FoldOpen(m, gm[i], t, handleTime)
                 ELSE [metrics |-> m, gMetric |-> gm[i]]
        IN  [metrics |-> r.metrics, groupMap |-> [gm EXCEPT ![i] = r.gMetric]]

(***************************************************************************)
(* DashboardPage: pure parts (processedData)                               *)
(***************************************************************************)
Max2(a, b) == IF a >= b THEN a ELSE b

\* String.prototype.localeCompare on the registry's names
NameOrder == <<"Billing", "Support">>
NameRank(n) == CHOOSE i \in 1..Len(NameOrder) : NameOrder[i] = n
localeCompare(a, b) == NameRank(a) - NameRank(b)

\* `direction === 'asc' ? valA - valB : valB - valA`
NumericOrderDescOnly(direction, valA, valB) == valB - valA
NumericOrder(direction, valA, valB) ==
    IF direction = "asc" THEN valA - valB ELSE valB - valA

\* the comparator handed to Array.prototype.sort
Compare(cfg, a, b) ==
    IF cfg # Null
    THEN IF cfg.key = "name"
         THEN (IF cfg.direction = "asc" THEN localeCompare(a.name, b.name)
                                        ELSE localeCompare(b.name, a.name))
         ELSE NumericOrder(cfg.direction, a[cfg.key], b[cfg.key])
    ELSE LET d == b.totalBreached - a.totalBreached
         IN  IF d # 0 THEN d
             ELSE Max2(b.longestEmailWait, b.longestMsgWait) - Max2(a.longestEmailWait, a.longestMsgWait)

\* Array.prototype.sort is stable: x goes behind every element that does not
\* compare greater than it
MustFollowOrTie(cfg, h, x) == Compare(cfg, h, x) >= 0
MustFollow(cfg, h, x) == Compare(cfg, h, x) > 0

RECURSIVE InsertSorted(_, _, _)
InsertSorted(sorted, x, cfg) ==
    IF sorted = <<>> THEN <<x>>
    ELSE IF MustFollow(cfg, Head(sorted), x) THEN <<x>> \o sorted
    ELSE <<Head(sorted)>> \o InsertSorted(Tail(sorted), x, cfg)

RECURSIVE ArraySortFrom(_, _, _)
ArraySortFrom(sorted, rest, cfg) ==
    IF rest = <<>> THEN sorted
    ELSE ArraySortFrom(InsertSorted(sorted, Head(rest), cfg), Tail(rest), cfg)

ArraySort(s, cfg) == ArraySortFrom(<<>>, s, cfg)

\* selectedGroupIds.has(g.id)
IsActiveAlways(g, sel) == TRUE
IsActive(g, sel) == g.id \in sel

RECURSIVE FilterSelected(_, _)
FilterSelected(groups, sel) ==
    IF groups = <<>> THEN <<>>
    ELSE IF IsActive(Head(groups), sel) THEN <<Head(groups)>> \o FilterSelected(Tail(groups), sel)
    ELSE FilterSelected(Tail(groups), sel)

\* activeGroups.reduce((acc, g) => acc + ..., 0), given the summands
RECURSIVE Reduce(_, _)
Reduce(summands, acc) ==
    IF summands = <<>> THEN acc ELSE Reduce(Tail(summands), acc + Head(summands))

\* Math.max(...values, 0)
RECURSIVE MathMax(_, _)
MathMax(values, acc) ==
    IF values = <<>> THEN acc ELSE MathMax(Tail(values), Max2(acc, Head(values)))

GNewEmailOnly(g) == g.newEmail
GNew(g) == g.newEmail + g.newMsg
GOpen(g) == g.openEmail + g.openMsg
GWait(g) == Max2(g.longestEmailWait, g.longestMsgWait)
GHandle(g) == Max2(g.longestEmailAHT, g.longestMsgAHT)
GBreachedWait(g) == g.breachedWait
GBreachedAHT(g) == g.breachedAHT

ProjectedTicketId(raw) == 0

\* activeGroups.map(g => ...)
NewCounts(groups) == [i \in 1..Len(groups) |-> GNew(groups[i])]
OpenCounts(groups) == [i \in 1..Len(groups) |-> GOpen(groups[i])]
Waits(groups) == [i \in 1..Len(groups) |-> GWait(groups[i])]
Handles(groups) == [i \in 1..Len(groups) |-> GHandle(groups[i])]
WaitBreaches(groups) == [i \in 1..Len(groups) |-> GBreachedWait(groups[i])]
HandleBreaches(groups) == [i \in 1..Len(groups) |-> GBreachedAHT(groups[i])]

processedData(raw, sel, cfg) ==
    IF raw = Null THEN Null
    ELSE LET activeGroups == ArraySort(FilterSelected(raw.groups, sel), cfg)
         IN  [raw EXCEPT
                !.groups = activeGroups,
                !.totalNew = Reduce(NewCounts(activeGroups), 0),
                !.totalOpen = Reduce(OpenCounts(activeGroups), 0),
                !.longestWait = [time |-> MathMax(Waits(activeGroups), 0),
                                 ticketId |-> ProjectedTicketId(raw)],
                !.longestHandle = [time |-> MathMax(Handles(activeGroups), 0),
                                   ticketId |-> ProjectedTicketId(raw)],
                !.breachedWaitCount = Reduce(WaitBreaches(activeGroups), 0),
                !.breachedHandleCount = Reduce(HandleBreaches(activeGroups), 0)]

\* what a render leaves in the array behind rawData.groups: the memo and the
\* dropdown list filter it into a new array and sort that one
GroupsAfterSortInPlace(raw, cfg) == ArraySort(raw.groups, cfg)
GroupsAfterSort(raw, cfg) == raw.groups

\* the base aggregate after the page has rendered with it
Render(raw, cfg) ==
    IF raw = Null THEN Null ELSE [raw EXCEPT !.groups = GroupsAfterSort(raw, cfg)]

GroupIds(groups) == {groups[i].id : i \in 1..Len(groups)}

(***************************************************************************)
(* State                                                                   *)
(***************************************************************************)
Cycles == 1..MaxCycles

IdleCall ==
    [pc |-> "idle", trigger |-> "none", targetGroupIds |-> <<>>, groupMap |-> <<>>,
     allTickets |-> <<>>, url |-> 0, pages |-> 0, now |-> 0,
     metrics |-> ZeroMetrics(FALSE), idx |-> 0]

NoTraffic == [groupReqs |-> 0, groupsFailed |-> FALSE, pageReqs |-> 0, served |-> 0, failedPage |-> 0]

SavedSelections == {Null, [ids |-> {5, StaleId}]}

\* the component right after its first render, before the mount effect
InitDashboard ==
    /\ client \in BOOLEAN
    /\ net = [c \in Cycles |-> NoTraffic]
    /\ call = [c \in Cycles |-> IdleCall]
    /\ last = 0
    /\ rawData = Null
    /\ loading = TRUE
    /\ lastUpdated = 0
    /\ storage \in SavedSelections
    /\ selectedGroupIds = (IF storage = Null THEN {} ELSE storage.ids)
    /\ sortConfig = Null

\* A dashboard over a steady search that holds one ticket, which changes
\* from one request to the next, refreshed once after its mount (an interval
\* tick or a click on Refresh), or again and again
RefreshedOnce ==
    [pageLen |-> 1, total |-> 1, steady |-> TRUE,
     pool |-> ChangingPool, listings |-> {<<G5, G7>>}, cycles |-> 2,
     targetGroupIds |-> <<>>]

RefreshScenario == [RefreshedOnce EXCEPT !.cycles = MaxCycles]

\* Collaborators that hold at most MaxTickets tickets of any kind, may end the
\* result set at any page and may fail any request, behind a page that is
\* loaded once; or the dashboard that is refreshed once
Scenarios ==
    {[pageLen |-> SmallPage, total |-> MaxTickets, steady |-> FALSE,
      pool |-> TicketPool, listings |-> GroupListings, cycles |-> 1, targetGroupIds |-> <<>>],
     RefreshedOnce}

Init ==
    /\ srv \in Scenarios
    /\ InitDashboard

\* Page counts on both sides of the ceiling and ticket counts on both sides of
\* the cap: short pages without end; long pages that run out right after
\* CapTickets tickets; long pages without end.  The long listings are steady:
\* no page fails and the cursor ends only with the results.  And the
\* one-page search behind the dashboard that is refreshed once.
PagingScenarios ==
    {[pageLen |-> SmallPage, total |-> (MaxPages + 1) * SmallPage, steady |-> FALSE,
      pool |-> {BulkTicket}, listings |-> {<<G5, G7>>}, cycles |-> 1, targetGroupIds |-> <<>>],
     [pageLen |-> BigPage, total |-> ((CapTickets + BigPage - 1) \div BigPage) * BigPage,
      steady |-> TRUE, pool |-> {BulkTicket}, listings |-> {<<G5, G7>>}, cycles |-> 1, targetGroupIds |-> <<>>],
     [pageLen |-> BigPage, total |-> (MaxPages + 1) * BigPage, steady |-> TRUE,
      pool |-> {BulkTicket}, listings |-> {<<G5, G7>>}, cycles |-> 1, targetGroupIds |-> <<>>],
     RefreshedOnce}

InitPaging ==
    /\ srv \in PagingScenarios
    /\ InitDashboard

\* fetchTicketData as its signature admits it to be called: with target
\* group ids (DashboardPage passes none), over a steady search of two
\* tickets, some stamped after the aggregation time
TargetArguments == {<<>>, <<5>>, <<7, StaleId>>}

DirectScenarios ==
    {[pageLen |-> 2, total |-> 2, steady |-> TRUE, pool |-> SkewPool,
      listings |-> {<<G5, G7>>}, cycles |-> 2, targetGroupIds |-> t] : t \in TargetArguments}

InitDirect ==
    /\ srv \in DirectScenarios
    /\ InitDashboard

InitRefresh ==
    /\ srv = RefreshScenario
    /\ InitDashboard

(***************************************************************************)
(* The collaborators                                                       *)
(***************************************************************************)
\* what client.request('/api/v2/groups.json') can come back with: a rejection,
\* a response without `groups`, or a listing; a steady collaborator lists
GroupOutcomes ==
    (IF srv.steady THEN {}
     ELSE {[ok |-> FALSE, groups |-> <<>>], [ok |-> TRUE, groups |-> <<>>]})
    \cup {[ok |-> TRUE, groups |-> l] : l \in srv.listings}

\* the pages client.request(url) can come back with when `served` tickets have
\* been handed out: up to pageLen further tickets, numbered in the order of
\* the search, and a cursor (0: none) to the page after this one
PageBodies(n, served) ==
    {[i \in 1..n |-> MkTicket(f[i], served + i)] : f \in [1..n -> srv.pool]}

PageLenAt(served) ==
    IF srv.total - served < srv.pageLen THEN srv.total - served ELSE srv.pageLen

Cursors(page, served, n) ==
    IF served + n >= srv.total THEN {0}
    ELSE IF srv.steady THEN {page + 1}
    ELSE {0, page + 1}

PageOutcomes(page, served) ==
    (IF srv.steady THEN {} ELSE {[ok |-> FALSE, results |-> <<>>, next_page |-> 0]})
    \cup {[ok |-> TRUE, results |-> b, next_page |-> nx] :
             b \in PageBodies(PageLenAt(served), served),
             nx \in Cursors(page, served, PageLenAt(served))}

(***************************************************************************)
(* fetchTicketData, as the steps between its awaits                        *)
(***************************************************************************)
LoopContinuesUnbounded(url, pages) == url # 0
LoopContinues(url, pages) == url # 0 /\ pages < MaxPages

\* the code after the while loop: isCapped, now, the zeroed metrics
StartFold(c) ==
    [c EXCEPT !.pc = "fold", !.now = Now, !.idx = 0,
              !.metrics = ZeroMetrics(IsCappedOf(c.allTickets))]

\* client.request(url) of the loop body: one request, awaited before the next
RequestPageAhead(reqs) == reqs + 2
RequestPage(reqs) == reqs + 1

\* what the catch of the page request does with the tickets fetched so far
OnPageFailureDiscard(allTickets) == <<>>
OnPageFailure(allTickets) == allTickets

\* fetchAllGroups: response.groups || [], and [] from its catch
AllGroupsOrUnknown(o) == IF o.ok THEN o.groups ELSE <<[id |-> 0, name |-> "Unknown"]>>
AllGroups(o) == IF o.ok THEN o.groups ELSE <<>>

\* JavaScript runs a continuation to its next await: while a fold is under
\* way no other handler or continuation runs
NoneFolding == \A c \in Cycles : call[c].pc # "fold"

InFlight(c) == call[c].pc \in {"groups", "page", "fold"}
Ended == {c \in Cycles : call[c].pc \in {"resolved", "rejected"}}

\* the page shows its header, Refresh button and table
Rendered == ~(loading /\ rawData = Null)

\* `finally { setLoading(false); }` of loadData, after a load that succeeded
\* or not
SettleLoadingOnlyOnSuccess(ok) == ~ok
SettleLoading(ok) == FALSE

\* who calls loadData: the mount effect once, then the interval and the
\* Refresh button, neither of which looks at `loading`
MayStart(c, trigger) ==
    /\ call[c].pc = "idle"
    /\ \A b \in Cycles : b < c => call[b].pc # "idle"
    /\ c <= srv.cycles
    /\ NoneFolding
    /\ trigger = "mount" <=> c = 1
    /\ trigger = "click" => Rendered

LoadDataUnguarded(c, trigger) ==
    /\ MayStart(c, trigger)
    /\ call' = [call EXCEPT ![c].pc = "groups", ![c].trigger = trigger, ![c].targetGroupIds = srv.targetGroupIds]
    /\ loading' = TRUE
    /\ net' = [net EXCEPT ![c].groupReqs = @ + 1]
    /\ UNCHANGED <<client, srv, last, rawData, lastUpdated, selectedGroupIds, storage, sortConfig>>

\* loadData up to the first await inside fetchTicketData; without a client
\* the call throws and loadData's catch and finally run
LoadData(c, trigger) ==
    /\ MayStart(c, trigger)
    /\ IF ~client
       THEN /\ call' = [call EXCEPT ![c].pc = "rejected", ![c].trigger = trigger]
            /\ loading' = SettleLoading(FALSE)
            /\ net' = net
            /\ last' = c
       ELSE /\ call' = [call EXCEPT ![c].pc = "groups", ![c].trigger = trigger,
                                    ![c].targetGroupIds = srv.targetGroupIds]
            /\ loading' = TRUE
            /\ net' = [net EXCEPT ![c].groupReqs = @ + 1]
            /\ last' = last
    /\ UNCHANGED <<client, srv, rawData, lastUpdated, selectedGroupIds, storage, sortConfig>>

\* fetchAllGroups settles; the map is seeded and the first page is requested
GroupsSettle(c) ==
    /\ call[c].pc = "groups"
    /\ NoneFolding
    /\ \E o \in GroupOutcomes :
         LET c1 == [call[c] EXCEPT
                      !.groupMap = SeedGroups(AllGroups(o), call[c].targetGroupIds, <<>>),
                      !.allTickets = <<>>, !.url = 1, !.pages = 0]
         IN  IF LoopContinues(c1.url, c1.pages)
             THEN /\ call' = [call EXCEPT ![c] = [c1 EXCEPT !.pc = "page"]]
                  /\ net' = [net EXCEPT ![c].groupsFailed = ~o.ok, ![c].pageReqs = RequestPage(@)]
             ELSE /\ call' = [call EXCEPT ![c] = StartFold(c1)]
                  /\ net' = [net EXCEPT ![c].groupsFailed = ~o.ok]
    /\ UNCHANGED <<client, srv, last, rawData, loading, lastUpdated, selectedGroupIds,
                   storage, sortConfig>>

\* one page request settles: the body of the while loop and its next test
PageSettle(c) ==
    /\ call[c].pc = "page"
    /\ NoneFolding
    /\ \E o \in PageOutcomes(call[c].url, net[c].served) :
         IF ~o.ok
         THEN /\ call' = [call EXCEPT ![c] = StartFold([call[c] EXCEPT !.allTickets = OnPageFailure(@)])]
              /\ net' = [net EXCEPT ![c].failedPage = call[c].pages + 1]
         ELSE LET c1 == [call[c] EXCEPT !.allTickets = @ \o o.results,
                                        !.url = o.next_page, !.pages = @ + 1]
              IN  IF LoopContinues(c1.url, c1.pages)
                  THEN /\ call' = [call EXCEPT ![c] = c1]
                       /\ net' = [net EXCEPT ![c].served = @ + Len(o.results),
                                             ![c].pageReqs = RequestPage(@)]
                  ELSE /\ call' = [call EXCEPT ![c] = StartFold(c1)]
                       /\ net' = [net EXCEPT ![c].served = @ + Len(o.results)]
    /\ UNCHANGED <<client, srv, last, rawData, loading, lastUpdated, selectedGroupIds,
                   storage, sortConfig>>

\* one iteration of allTickets.forEach
FoldStepPublishing(c) ==
    /\ call[c].pc = "fold"
    /\ call[c].idx < Len(call[c].allTickets)
    /\ LET r == FoldTicket(call[c].metrics, call[c].groupMap,
                           call[c].allTickets[call[c].idx + 1], call[c].now)
       IN  /\ call' = [call EXCEPT ![c].idx = @ + 1, ![c].metrics = r.metrics,
                                   ![c].groupMap = r.groupMap]
           /\ rawData' = [r.metrics EXCEPT !.groups = r.groupMap]
    /\ UNCHANGED <<client, srv, net, last, loading, lastUpdated, selectedGroupIds,
                   storage, sortConfig>>

FoldStep(c) ==
    /\ call[c].pc = "fold"
    /\ call[c].idx < Len(call[c].allTickets)
    /\ LET r == FoldTicket(call[c].metrics, call[c].groupMap,
                           call[c].allTickets[call[c].idx + 1], call[c].now)
       IN  call' = [call EXCEPT ![c].idx = @ + 1, ![c].metrics = r.metrics,
                                ![c].groupMap = r.groupMap]
    /\ UNCHANGED <<client, srv, net, last, rawData, loading, lastUpdated, selectedGroupIds,
                   storage, sortConfig>>

\* the selection a finished load leaves behind
SelectionAfterLoad(metrics) ==
    IF storage = Null /\ Len(metrics.groups) > 0 THEN GroupIds(metrics.groups)
    ELSE selectedGroupIds

\* setRawData(metrics)
StoreUnlessNewerStarted(c, metrics) ==
    IF \E b \in Cycles : b > c /\ call[b].pc # "idle" THEN rawData ELSE metrics
Store(c, metrics) == metrics

\* fetchTicketData returns, which ends the life of the tickets it fetched;
\* loadData stores the result (setRawData, the first selection,
\* setLastUpdated, finally setLoading(false)) and the storage effect runs
Resolve(c) ==
    /\ call[c].pc = "fold"
    /\ call[c].idx = Len(call[c].allTickets)
    /\ LET metrics == [call[c].metrics EXCEPT !.groups = call[c].groupMap]
       IN  /\ call' = [call EXCEPT ![c].pc = "resolved", ![c].metrics = metrics,
                                   ![c].allTickets = <<>>, ![c].now = 0]
           /\ rawData' = Render(Store(c, metrics), sortConfig)
           /\ selectedGroupIds' = SelectionAfterLoad(metrics)
           /\ storage' = [ids |-> SelectionAfterLoad(metrics)]
           /\ lastUpdated' = Cardinality(Ended) + 1
           /\ loading' = SettleLoading(TRUE)
           /\ last' = c
    /\ UNCHANGED <<client, srv, net, sortConfig>>

(***************************************************************************)
(* DashboardPage: the handlers of the rendered page                        *)
(***************************************************************************)
SortKeys == {"name", "newMsg", "totalBreached"}

StorageEffect(sel) == IF rawData # Null THEN [ids |-> sel] ELSE storage

handleSort(key) ==
    /\ Rendered
    /\ NoneFolding
    /\ sortConfig' = [key |-> key,
                      direction |-> IF sortConfig # Null /\ sortConfig.key = key
                                       /\ sortConfig.direction = "desc"
                                    THEN "asc" ELSE "desc"]
    /\ rawData' = Render(rawData, sortConfig')
    /\ UNCHANGED <<client, srv, net, call, last, loading, lastUpdated,
                   selectedGroupIds, storage>>

toggleGroup(id) ==
    /\ Rendered
    /\ NoneFolding
    /\ rawData # Null
    /\ id \in GroupIds(rawData.groups)
    /\ LET newSet == IF id \in selectedGroupIds THEN selectedGroupIds \ {id}
                     ELSE selectedGroupIds \cup {id}
       IN  /\ selectedGroupIds' = newSet
           /\ storage' = StorageEffect(newSet)
    /\ rawData' = Render(rawData, sortConfig)
    /\ UNCHANGED <<client, srv, net, call, last, loading, lastUpdated, sortConfig>>

toggleAll ==
    /\ Rendered
    /\ NoneFolding
    /\ rawData # Null
    /\ LET newSet == IF Cardinality(selectedGroupIds) = Len(rawData.groups) THEN {}
                     ELSE GroupIds(rawData.groups)
       IN  /\ selectedGroupIds' = newSet
           /\ storage' = StorageEffect(newSet)
    /\ rawData' = Render(rawData, sortConfig)
    /\ UNCHANGED <<client, srv, net, call, last, loading, lastUpdated, sortConfig>>

\* the mount effect's loadData() and the continuations of the refresh
\* cycles, which the event loop runs whenever the request they wait for has
\* settled
Cycle ==
    \/ LoadData(1, "mount")
    \/ \E c \in Cycles : GroupsSettle(c) \/ PageSettle(c) \/ FoldStep(c) \/ Resolve(c)

\* setInterval(loadData, 60000) fires
Tick == \E c \in Cycles : LoadData(c, "tick")

\* onClick={loadData} of the Refresh button
Refresh == \E c \in Cycles : LoadData(c, "click")

Next ==
    \/ Cycle
    \/ Tick
    \/ Refresh
    \/ \E key \in SortKeys : handleSort(key)
    \/ \E id \in KnownIds : toggleGroup(id)
    \/ toggleAll

Spec == Init /\ [][Next]_vars
SpecPaging == InitPaging /\ [][Next]_vars
SpecRefresh == InitRefresh /\ [][Next]_vars
SpecDirect == InitDirect /\ [][Next]_vars

\* every request settles and every continuation is run
FairPaging == InitPaging /\ [][Next]_vars /\ WF_vars(Cycle)

(***************************************************************************)
(* Properties                                                              *)
(***************************************************************************)
Folding(c) == call[c].pc \in {"fold", "resolved"}

\* the fold is under way or at its end, the tickets still at hand
Folded(c) == call[c].pc = "fold"

\* the tickets the fold has processed so far
Processed(c) == 1..call[c].idx

RECURSIVE SumOver(_, _)
SumOver(f, S) ==
    IF S = {} THEN 0
    ELSE LET x == CHOOSE y \in S : TRUE IN f[x] + SumOver(f, S \ {x})

GroupSum(c, f) == SumOver(f, 1..Len(call[c].groupMap))

NewOf(g) == g.newEmail + g.newMsg
OpenOf(g) == g.openEmail + g.openMsg

\* C1: at every prefix of the fold and in its result, totalNew is the sum over
\* the groups of newEmail + newMsg and totalOpen the sum of openEmail + openMsg.
C1_TotalsAreGroupSums ==
    \A c \in Cycles :
        Folding(c) =>
            /\ call[c].metrics.totalNew = GroupSum(c, [i \in 1..Len(call[c].groupMap) |-> NewOf(call[c].groupMap[i])])
            /\ call[c].metrics.totalOpen = GroupSum(c, [i \in 1..Len(call[c].groupMap) |-> OpenOf(call[c].groupMap[i])])

C1_Witness ==
    \E c \in Cycles :
        /\ call[c].pc = "fold" /\ call[c].idx = 2 /\ Len(call[c].groupMap) = 2
        /\ call[c].metrics.totalNew = 1 /\ call[c].metrics.totalOpen = 1
        /\ \E i \in 1..2 : NewOf(call[c].groupMap[i]) = 1 /\ OpenOf(call[c].groupMap[3 - i]) = 1

\* C2: at every prefix of the fold and in its result, breachedWaitCount is the
\* sum over the groups of breachedWait and breachedHandleCount the sum of
\* breachedAHT.
C2_BreachesAreGroupSums ==
    \A c \in Cycles :
        Folding(c) =>
            /\ call[c].metrics.breachedWaitCount = GroupSum(c, [i \in 1..Len(call[c].groupMap) |-> call[c].groupMap[i].breachedWait])
            /\ call[c].metrics.breachedHandleCount = GroupSum(c, [i \in 1..Len(call[c].groupMap) |-> call[c].groupMap[i].breachedAHT])

C2_Witness ==
    \E c \in Cycles :
        /\ call[c].pc = "fold" /\ call[c].idx = 2 /\ Len(call[c].groupMap) = 2
        /\ call[c].metrics.breachedWaitCount = 1 /\ call[c].metrics.breachedHandleCount = 1
        /\ \E i \in 1..2 : call[c].groupMap[i].breachedWait = 1 /\ call[c].groupMap[3 - i].breachedAHT = 1

\* the projection the page shows when every group of the aggregate is selected
FullySelected == rawData # Null /\ selectedGroupIds = GroupIds(rawData.groups)
Shown == processedData(rawData, selectedGroupIds, sortConfig)

SameCountsAndTimes(p, raw) ==
    /\ p.totalNew = raw.totalNew
    /\ p.totalOpen = raw.totalOpen
    /\ p.breachedWaitCount = raw.breachedWaitCount
    /\ p.breachedHandleCount = raw.breachedHandleCount
    /\ p.longestWait.time = raw.longestWait.time
    /\ p.longestHandle.time = raw.longestHandle.time
    /\ p.isCapped = raw.isCapped
    /\ Len(p.groups) = Len(raw.groups)
    /\ SeqToSet(p.groups) = SeqToSet(raw.groups)

\* C3 as stated: with every group selected the projection equals the base
\* aggregate on every field, the ticket ids of the two longest records included.
C3_ProjectionEqualsBase ==
    FullySelected =>
        /\ SameCountsAndTimes(Shown, rawData)
        /\ Shown.longestWait.ticketId = rawData.longestWait.ticketId
        /\ Shown.longestHandle.ticketId = rawData.longestHandle.ticketId

\* C3 amended: with every group selected the projection equals the base
\* aggregate on the totals, the breach counts, the two longest times, isCapped
\* and the group records; the two ticket ids of the projection are 0.
C3_ProjectionEqualsBaseButIds ==
    FullySelected =>
        /\ SameCountsAndTimes(Shown, rawData)
        /\ Shown.longestWait.ticketId = 0
        /\ Shown.longestHandle.ticketId = 0

C3_Witness ==
    /\ FullySelected
    /\ Len(rawData.groups) = 2
    /\ rawData.totalNew = 1 /\ rawData.totalOpen = 1
    /\ rawData.longestWait.ticketId # 0
    /\ rawData.longestHandle.ticketId # 0

\* the ticket the fold step at hand processes
Current(c) == call[c].allTickets[call[c].idx + 1]
KeysOf(gm) == {gm[i].id : i \in 1..Len(gm)}

\* C4: folding a ticket whose group id (0 when absent) is no key of the seeded
\* map leaves every GroupMetric and every global field as it was.
C4_UnknownGroupDropped ==
    [][\A c \in Cycles :
       (/\ call[c].pc = "fold"
        /\ call'[c].idx = call[c].idx + 1
        /\ Current(c).group_id \notin KeysOf(call[c].groupMap))
       => (call'[c].metrics = call[c].metrics /\ call'[c].groupMap = call[c].groupMap)]_vars

C4_Witness ==
    \E c \in Cycles :
        /\ call[c].pc = "fold" /\ call[c].idx = 2 /\ Len(call[c].groupMap) = 2
        /\ call[c].allTickets[1].group_id = 5
        /\ call[c].allTickets[2].group_id = StaleId
        /\ call[c].allTickets[2].status = "new"
        /\ call[c].allTickets[2].assignee_id = NullId
        /\ call[c].metrics.totalNew = 1

\* whole minutes elapsed at the aggregation time, for a ticket of the past
ElapsedAtLeast(c, from, minutes) == call[c].now - from >= 60 * minutes

WaitBreachersOf(c, g) ==
    {i \in Processed(c) :
        /\ call[c].allTickets[i].group_id = g.id
        /\ call[c].allTickets[i].status = "new"
        /\ call[c].allTickets[i].assignee_id = NullId
        /\ ElapsedAtLeast(c, call[c].allTickets[i].created_at, 31)}

\* C5: each group's breachedWait is the number of its new, unassigned tickets
\* that have waited more than 30 whole minutes: 30 minutes is no breach, 31 is.
C5_WaitBreachCount ==
    \A c \in Cycles :
        Folded(c) =>
            \A i \in 1..Len(call[c].groupMap) :
                call[c].groupMap[i].breachedWait = Cardinality(WaitBreachersOf(c, call[c].groupMap[i]))

C5_Witness ==
    \E c \in Cycles :
        /\ call[c].pc = "fold" /\ call[c].idx = 2
        /\ \E i, j \in 1..2 :
            /\ i # j
            /\ call[c].allTickets[i].group_id = 5 /\ call[c].allTickets[j].group_id = 5
            /\ call[c].allTickets[i].status = "new" /\ call[c].allTickets[j].status = "new"
            /\ call[c].allTickets[i].assignee_id = NullId /\ call[c].allTickets[j].assignee_id = NullId
            /\ differenceInMinutes(call[c].now, call[c].allTickets[i].created_at) = 30
            /\ differenceInMinutes(call[c].now, call[c].allTickets[j].created_at) = 31
        /\ \E g \in 1..Len(call[c].groupMap) :
            call[c].groupMap[g].id = 5 /\ call[c].groupMap[g].breachedWait = 1

Ceiling(c) == call[c].pages = MaxPages /\ call[c].url # 0

\* C6 as stated: when pagination stopped at the page ceiling with a cursor
\* left, the result has isCapped = TRUE.
C6_CeilingSetsIsCapped ==
    \A c \in Cycles :
        (Folding(c) /\ Ceiling(c)) => call[c].metrics.isCapped

\* C7 as stated: isCapped is TRUE only if pagination stopped at the page
\* ceiling; it is FALSE when the cursor ran out or a page failed before it.
C7_IsCappedOnlyAtCeiling ==
    \A c \in Cycles :
        (Folding(c) /\ call[c].metrics.isCapped) => Ceiling(c)

\* the tickets the collaborator handed out, in its order, are numbered 1, 2, ...
FetchedInOrder(c) ==
    /\ Len(call[c].allTickets) = net[c].served
    /\ \A i \in 1..Len(call[c].allTickets) : call[c].allTickets[i].id = i

Counted(c, S) ==
    Cardinality({i \in S : /\ call[c].allTickets[i].status \in {"new", "open"}
                           /\ call[c].allTickets[i].group_id \in KeysOf(call[c].groupMap)})

\* C8: once page request k has failed no further page is requested, the
\* tickets of pages 1..k-1 are kept in order, the fold runs over exactly them
\* and the call resolves.
C8_PartialFailure ==
    \A c \in Cycles :
        net[c].failedPage # 0 =>
            /\ Folding(c)
            /\ net[c].pageReqs = net[c].failedPage
            /\ call[c].pages = net[c].failedPage - 1
            /\ Folded(c) =>
                  /\ FetchedInOrder(c)
                  /\ call[c].idx = net[c].served =>
                        call[c].metrics.totalNew + call[c].metrics.totalOpen
                            = Counted(c, 1..net[c].served)
            /\ call[c].pc = "resolved" => call[c].idx = net[c].served

C8_Witness ==
    \E c \in Cycles :
        /\ net[c].failedPage = 2
        /\ call[c].pc = "resolved"
        /\ call[c].idx = 1
        /\ net[c].served = 1
        /\ call[c].metrics.totalNew = 1
        /\ rawData = call[c].metrics

\* C9: without a client every call is rejected before any request and leaves
\* no result; with a client no call is rejected and every call that was
\* started resolves, whatever the group listing and the pages do.
C9_RejectsOnlyWithoutClient ==
    /\ [](~client => /\ \A c \in Cycles : /\ call[c].pc \in {"idle", "rejected"}
                                           /\ net[c] = NoTraffic
                     /\ rawData = Null)
    /\ [](client => \A c \in Cycles : call[c].pc # "rejected")
    /\ [](\A c \in Cycles :
            (call[c].pc = "resolved" /\ last = c) => rawData = call[c].metrics)
    /\ <>[](/\ call[1].pc = (IF client THEN "resolved" ELSE "rejected")
            /\ \A c \in Cycles : ~InFlight(c))

C9_Witness ==
    \E c \in Cycles :
        /\ client
        /\ call[c].pc = "resolved"
        /\ call[c].groupMap = <<>>
        /\ net[c].failedPage # 0
        /\ net[c].served > 0
        /\ call[c].metrics.groups = <<>>
        /\ rawData = call[c].metrics

\* C10: a call issues at most MaxPages page requests; a page request is
\* outstanding only while the cursor is set, the ceiling is not reached and no
\* page has failed; and every call that was started comes to an end.
C10_FetchTerminates ==
    /\ [](\A c \in Cycles :
          /\ net[c].pageReqs <= MaxPages
          /\ call[c].pc = "page" => /\ call[c].url # 0
                                    /\ call[c].pages < MaxPages
                                    /\ net[c].failedPage = 0
                                    /\ net[c].pageReqs = call[c].pages + 1
          /\ Folding(c) => /\ net[c].pageReqs = call[c].pages + (IF net[c].failedPage # 0 THEN 1 ELSE 0)
                           /\ (call[c].url = 0 \/ call[c].pages = MaxPages \/ net[c].failedPage # 0))
    /\ <>[](/\ call[1].pc \in {"resolved", "rejected"}
            /\ \A c \in Cycles : ~InFlight(c))

C10_Witness ==
    \E c \in Cycles :
        /\ call[c].pc = "resolved"
        /\ net[c].pageReqs = MaxPages
        /\ Ceiling(c)

\* the page requests of call c that have been issued and not answered
Outstanding(c) ==
    net[c].pageReqs - call[c].pages - (IF net[c].failedPage # 0 THEN 1 ELSE 0)

\* C11 as stated: in every state of the dashboard, interval ticks and clicks on
\* Refresh included, at most one page request is outstanding.
C11_OnePageRequestOutstanding ==
    Cardinality({c \in Cycles : call[c].pc = "page"}) <= 1

\* C11 amended: each fetchTicketData call has at most one page request
\* outstanding, and it issues a page request only when none of its own is
\* outstanding and, past the first, only in the step that takes the response
\* with the cursor of the page before; calls of overlapping cycles each have
\* their own.
C11_OnePageRequestPerCall ==
    [][\A c \in Cycles :
         /\ Outstanding(c) \in {0, 1}
         /\ Outstanding(c) = 1 <=> call[c].pc = "page"
         /\ net'[c].pageReqs # net[c].pageReqs =>
               /\ net'[c].pageReqs = net[c].pageReqs + 1
               /\ Outstanding(c)' = 1
               /\ \/ net[c].pageReqs = 0
                  \/ Outstanding(c) = 1 /\ call'[c].pages = call[c].pages + 1
                                        /\ call'[c].url # 0]_vars

C11_Witness ==
    /\ \E c \in Cycles : call[c].pc = "page" /\ call[c].pages = 2 /\ net[c].pageReqs = 3
                         /\ Len(call[c].allTickets) = 2

\* C12 as stated: an interval tick that fires while an earlier refresh cycle is
\* in flight starts no second fetchTicketData call.
C12_TickStartsNoSecondFetch ==
    [][\A c \in Cycles :
         (call[c].pc = "idle" /\ call'[c].pc = "groups" /\ call'[c].trigger = "tick")
         => \A a \in Cycles : ~InFlight(a)]_vars

\* the cycles that have ended, the last of them being `last`
LastEnded == (last = 0 /\ Ended = {}) \/ last \in Ended
WinnerShown == LastEnded /\ ((client /\ last # 0) => rawData = call[last].metrics)

\* C13: a cycle that is started while others are in flight leaves them as they
\* are and none is ever taken out of flight but by resolving; a cycle that
\* resolves stores its own result; and the aggregate on display is the result
\* of the cycle that ended last, in whatever order the cycles were started.
C13_LastWriterWins ==
    [][/\ \A c \in Cycles :
            /\ InFlight(c) => call'[c].pc \in {"groups", "page", "fold", "resolved"}
            /\ (InFlight(c) /\ \E b \in Cycles : call[b].pc = "idle" /\ call'[b].pc # "idle")
                   => (call'[c] = call[c] /\ net'[c] = net[c])
            /\ (call[c].pc = "fold" /\ call'[c].pc = "resolved")
                   => (rawData' = call'[c].metrics /\ last' = c)
       /\ WinnerShown /\ WinnerShown']_vars

C13_Witness ==
    /\ Ended = {1, 2, 3}
    /\ last = 1
    /\ call[3].trigger = "click"
    /\ rawData = call[1].metrics
    /\ rawData # call[2].metrics
    /\ rawData # call[3].metrics

\* the result of a cycle that has resolved
Finalized(c) ==
    /\ call[c].pc = "resolved"
    /\ call[c].metrics.groups = call[c].groupMap

Displayable == rawData = Null \/ \E c \in Cycles : Finalized(c) /\ rawData = call[c].metrics

\* C14: rawData is null or the result of one cycle that has resolved, and it
\* changes only in the step in which a cycle resolves, which happens when the
\* fold has gone over every ticket the cycle fetched and stores the metrics
\* and the group map of that fold.
C14_AtomicReplacement ==
    [][/\ Displayable /\ Displayable'
       /\ \A c \in Cycles :
             (call[c].pc = "fold" /\ call'[c].pc = "resolved") =>
                /\ call[c].idx = Len(call[c].allTickets)
                /\ rawData' = [call[c].metrics EXCEPT !.groups = call[c].groupMap]
       /\ rawData' # rawData =>
             \E c \in Cycles : call[c].pc = "fold" /\ call'[c].pc = "resolved"]_vars

C14_Witness ==
    /\ rawData = call[1].metrics
    /\ call[2].pc = "fold" /\ call[2].idx = 1
    /\ call[2].metrics.totalOpen = 1
    /\ rawData.totalOpen = 0 /\ rawData.totalNew = 1

AllZero(m) ==
    /\ m.totalNew = 0 /\ m.totalOpen = 0
    /\ m.breachedWaitCount = 0 /\ m.breachedHandleCount = 0
    /\ m.longestWait.time = 0 /\ m.longestHandle.time = 0

\* C15: when the group listing request has failed the seeded map is empty,
\* the call still folds and resolves, and at every fold position and in the
\* result the group list is empty and every global counter and longest time
\* is 0, whatever tickets were fetched.
C15_GroupListingFailure ==
    \A c \in Cycles :
        net[c].groupsFailed =>
            /\ call[c].pc \in {"page", "fold", "resolved"}
            /\ call[c].groupMap = <<>>
            /\ Folding(c) => AllZero(call[c].metrics)
            /\ call[c].pc = "resolved" => (call[c].metrics.groups = <<>> /\ rawData = call[c].metrics)

C15_Witness ==
    \E c \in Cycles :
        /\ net[c].groupsFailed
        /\ call[c].pc = "fold"
        /\ call[c].idx = 2
        /\ call[c].allTickets[1].status = "new" /\ call[c].allTickets[1].group_id = 5
        /\ call[c].allTickets[2].status = "open" /\ call[c].allTickets[2].group_id = NullId
        /\ AllZero(call[c].metrics)

\* the groups of the base aggregate that the selection names
SelectedIdx == {i \in 1..Len(rawData.groups) : rawData.groups[i].id \in selectedGroupIds}

MaxOver(f, S) == IF S = {} THEN 0 ELSE CHOOSE x \in {f[i] : i \in S} : \A i \in S : f[i] <= x

\* C16: the projection's totals and breach counts are the sums, and its two
\* longest times the maxima, over the groups of the base aggregate whose id is
\* selected; ids that match no group count for nothing and all six values are
\* 0 when no group is selected.
C16_ProjectionOverSelection ==
    rawData # Null =>
        LET G == rawData.groups
            I == 1..Len(G)
        IN  /\ Shown.totalNew = SumOver([i \in I |-> NewOf(G[i])], SelectedIdx)
            /\ Shown.totalOpen = SumOver([i \in I |-> OpenOf(G[i])], SelectedIdx)
            /\ Shown.breachedWaitCount = SumOver([i \in I |-> G[i].breachedWait], SelectedIdx)
            /\ Shown.breachedHandleCount = SumOver([i \in I |-> G[i].breachedAHT], SelectedIdx)
            /\ Shown.longestWait.time =
                  MaxOver([i \in I |-> Max2(G[i].longestEmailWait, G[i].longestMsgWait)], SelectedIdx)
            /\ Shown.longestHandle.time =
                  MaxOver([i \in I |-> Max2(G[i].longestEmailAHT, G[i].longestMsgAHT)], SelectedIdx)
            /\ GroupIds(Shown.groups) = selectedGroupIds \cap GroupIds(G)
            /\ SelectedIdx = {} => (AllZero(Shown) /\ Shown.groups = <<>>)

C16_Witness ==
    /\ rawData # Null
    /\ selectedGroupIds = {5, StaleId}
    /\ Len(rawData.groups) = 2
    /\ rawData.totalNew = 1 /\ rawData.totalOpen = 1
    /\ Shown.totalNew = 1 /\ Shown.totalOpen = 0
    /\ rawData.longestHandle.time = 21 /\ Shown.longestHandle.time = 0
    /\ Shown.longestWait.time = 31

\* the longest of a group's waits and handle times over both channels
LongestOf(g) == Max2(Max2(g.longestEmailWait, g.longestMsgWait),
                     Max2(g.longestEmailAHT, g.longestMsgAHT))

\* C17 as stated: without an explicit sort column the groups on display go by
\* descending totalBreached, and groups with equal totalBreached by descending
\* max(longest wait, longest handle time).
C17_DefaultOrder ==
    (rawData # Null /\ sortConfig = Null) =>
        \A i, j \in 1..Len(Shown.groups) :
            i < j => \/ Shown.groups[i].totalBreached > Shown.groups[j].totalBreached
                     \/ /\ Shown.groups[i].totalBreached = Shown.groups[j].totalBreached
                        /\ LongestOf(Shown.groups[i]) >= LongestOf(Shown.groups[j])

\* every sort config the table headers can set, and none
SortConfigs == {Null} \cup [key : SortKeys, direction : {"asc", "desc"}]

\* what the comparator looks at is equal for the two groups
SameSortKeys(cfg, a, b) ==
    IF cfg # Null THEN a[cfg.key] = b[cfg.key]
    ELSE /\ a.totalBreached = b.totalBreached
         /\ Max2(a.longestEmailWait, a.longestMsgWait) = Max2(b.longestEmailWait, b.longestMsgWait)

PosOf(s, id) == CHOOSE i \in 1..Len(s) : s[i].id = id

\* C18: for every sort config, sorting the selected groups gives a permutation
\* in which groups with equal sort keys keep their input order, and sorting
\* the sorted list again with the same config gives the same list.
C18_StableIdempotent ==
    rawData # Null =>
        \A cfg \in SortConfigs :
            LET in == FilterSelected(rawData.groups, selectedGroupIds)
                out == ArraySort(in, cfg)
            IN  /\ Len(out) = Len(in)
                /\ SeqToSet(out) = SeqToSet(in)
                /\ \A i, j \in 1..Len(in) :
                      (i < j /\ SameSortKeys(cfg, in[i], in[j]))
                          => PosOf(out, in[i].id) < PosOf(out, in[j].id)
                /\ ArraySort(out, cfg) = out

C18_Witness ==
    /\ rawData # Null
    /\ Len(Shown.groups) = 2
    /\ rawData.groups[1].id = 7
    /\ sortConfig = [key |-> "newMsg", direction |-> "desc"]
    /\ rawData.groups[1].newMsg = rawData.groups[2].newMsg
    /\ rawData.groups[1].newEmail = 1
    /\ Shown.groups = rawData.groups

\* the wait tracking of a group, and of the aggregate with its groups
WaitFields(g) == <<g.longestEmailWait, g.longestMsgWait, g.breachedWait>>
WaitTracking(c) ==
    <<call[c].metrics.longestWait, call[c].metrics.breachedWaitCount,
      [i \in 1..Len(call[c].groupMap) |-> WaitFields(call[c].groupMap[i])]>>

\* C19: a fold step over a new ticket of a known group adds one to totalNew
\* and one to the new count of its group, assigned or not; a step over any
\* ticket that is not both new and unassigned leaves longestWait, every
\* group's longest waits and every wait-breach count as they were.
C19_NewTicketsCounted ==
    [][\A c \in Cycles :
         (call[c].pc = "fold" /\ call'[c].idx = call[c].idx + 1) =>
            LET t == Current(c)
                gm == call[c].groupMap
            IN  /\ (t.status = "new" /\ t.group_id \in KeysOf(gm)) =>
                      /\ call'[c].metrics.totalNew = call[c].metrics.totalNew + 1
                      /\ \A i \in 1..Len(gm) :
                            NewOf(call'[c].groupMap[i])
                               = NewOf(gm[i]) + (IF gm[i].id = t.group_id THEN 1 ELSE 0)
                /\ ~(t.status = "new" /\ t.assignee_id = NullId) =>
                      WaitTracking(c)' = WaitTracking(c)]_vars

C19_Witness ==
    \E c \in Cycles :
        /\ call[c].pc = "fold"
        /\ call[c].idx = 2
        /\ \A i \in 1..2 : /\ call[c].allTickets[i].status = "new"
                           /\ call[c].allTickets[i].group_id = 5
                           /\ call[c].allTickets[i].channel = "chat"
                           /\ differenceInMinutes(call[c].now, call[c].allTickets[i].created_at) = 31
        /\ call[c].allTickets[1].assignee_id = NullId
        /\ call[c].allTickets[2].assignee_id # NullId
        /\ call[c].metrics.totalNew = 2
        /\ call[c].metrics.breachedWaitCount = 1

\* whole minutes since the last update, for a ticket of the past
HandleMinutes(c, i) == (call[c].now - call[c].allTickets[i].updated_at) \div 60

\* the open tickets of group g folded so far, by channel class
OpenOfGroup(c, g, msg) ==
    {i \in Processed(c) :
        /\ call[c].allTickets[i].status = "open"
        /\ call[c].allTickets[i].group_id = g.id
        /\ (call[c].allTickets[i].channel \in MESSAGING) = msg}

\* C20: at every fold position and in the result, each group's longestEmailAHT
\* and longestMsgAHT are the longest handle minutes of its open tickets of that
\* channel class (0 without one), its breachedAHT is the number of its open
\* tickets with more than 20 handle minutes, assigned or not, and totalOpen is
\* the number of open tickets of known groups.
C20_OpenTickets ==
    \A c \in Cycles :
        Folded(c) =>
            LET hm == [i \in 1..Len(call[c].allTickets) |-> HandleMinutes(c, i)]
            IN  /\ \A k \in 1..Len(call[c].groupMap) :
                      LET g == call[c].groupMap[k]
                      IN  /\ g.longestEmailAHT = MaxOver(hm, OpenOfGroup(c, g, FALSE))
                          /\ g.longestMsgAHT = MaxOver(hm, OpenOfGroup(c, g, TRUE))
                          /\ g.breachedAHT =
                                Cardinality({i \in OpenOfGroup(c, g, FALSE) \cup OpenOfGroup(c, g, TRUE) :
                                                hm[i] > 20})
                /\ call[c].metrics.totalOpen =
                      Cardinality({i \in Processed(c) :
                                      /\ call[c].allTickets[i].status = "open"
                                      /\ call[c].allTickets[i].group_id \in KeysOf(call[c].groupMap)})

C20_Witness ==
    \E c \in Cycles :
        /\ call[c].pc = "fold"
        /\ call[c].idx = 2
        /\ \A i \in 1..2 : /\ call[c].allTickets[i].status = "open"
                           /\ call[c].allTickets[i].group_id = 5
                           /\ call[c].allTickets[i].channel = "web"
        /\ HandleMinutes(c, 1) = 21 /\ HandleMinutes(c, 2) = 20
        /\ call[c].metrics.totalOpen = 2
        /\ \E k \in 1..Len(call[c].groupMap) :
              /\ call[c].groupMap[k].id = 5
              /\ call[c].groupMap[k].longestEmailAHT = 21
              /\ call[c].groupMap[k].breachedAHT = 1

\* the fold of cycle c takes a step over a ticket of a group of the map
StepsOverKnown(c) ==
    /\ call[c].pc = "fold"
    /\ call'[c].idx = call[c].idx + 1
    /\ Current(c).group_id \in KeysOf(call[c].groupMap)

\* C21 as stated: a fold step over a pending ticket of a known group adds one
\* to pendingTickets of that group and changes nothing else.
C21_PendingCounted ==
    [][\A c \in Cycles :
         (StepsOverKnown(c) /\ Current(c).status = "pending") =>
            /\ call'[c].metrics = call[c].metrics
            /\ \A i \in 1..Len(call[c].groupMap) :
                  call'[c].groupMap[i] =
                     IF call[c].groupMap[i].id = Current(c).group_id
                     THEN [call[c].groupMap[i] EXCEPT !.pendingTickets = @ + 1]
                     ELSE call[c].groupMap[i]]_vars

\* C22: a fold step over a ticket whose status is none of new, open and
\* pending leaves the metrics and every GroupMetric as they were, also for a
\* ticket of a known group whose times are over both thresholds.
C22_OtherStatusIgnored ==
    [][\A c \in Cycles :
         (StepsOverKnown(c) /\ Current(c).status \notin {"new", "open", "pending"}) =>
            (call'[c].metrics = call[c].metrics /\ call'[c].groupMap = call[c].groupMap)]_vars

C22_Witness ==
    \E c \in Cycles :
        /\ call[c].pc = "fold" /\ call[c].idx = 2
        /\ call[c].allTickets[1].status = "new" /\ call[c].allTickets[1].group_id = 5
        /\ call[c].allTickets[2].status = "solved" /\ call[c].allTickets[2].group_id = 5
        /\ call[c].now - call[c].allTickets[2].created_at > 60 * 30
        /\ call[c].now - call[c].allTickets[2].updated_at > 60 * 20
        /\ call[c].metrics.totalNew = 1 /\ call[c].metrics.totalOpen = 0

\* the longest fields of the aggregate and of its groups
LongestTimes(c) ==
    <<call[c].metrics.longestWait.time, call[c].metrics.longestHandle.time>>
    \o [i \in 1..Len(call[c].groupMap) |-> call[c].groupMap[i].longestEmailWait]
    \o [i \in 1..Len(call[c].groupMap) |-> call[c].groupMap[i].longestMsgWait]
    \o [i \in 1..Len(call[c].groupMap) |-> call[c].groupMap[i].longestEmailAHT]
    \o [i \in 1..Len(call[c].groupMap) |-> call[c].groupMap[i].longestMsgAHT]

\* a global longest record went from `old` to `new` over ticket t
KeepsFirst(old, new, t) ==
    /\ new.time >= old.time
    /\ new.time = old.time => new.ticketId = old.ticketId
    /\ new.time > old.time => new.ticketId = t.id
    /\ new.time = 0 <=> new.ticketId = 0

\* C23: from one fold step to the next no longest field decreases, a global
\* longest record changes its ticketId only when its time grows (a ticket
\* that ties the maximum does not take it over), and time 0 goes with
\* ticketId 0.
C23_LongestMonotone ==
    [][\A c \in Cycles :
         (call[c].pc = "fold" /\ call'[c].idx = call[c].idx + 1) =>
            /\ \A k \in 1..Len(LongestTimes(c)) : LongestTimes(c)'[k] >= LongestTimes(c)[k]
            /\ KeepsFirst(call[c].metrics.longestWait, call'[c].metrics.longestWait, Current(c))
            /\ KeepsFirst(call[c].metrics.longestHandle, call'[c].metrics.longestHandle, Current(c))]_vars

C23_Witness ==
    \E c \in Cycles :
        /\ call[c].pc = "fold" /\ call[c].idx = 2
        /\ \A i \in 1..2 : /\ call[c].allTickets[i].status = "new"
                           /\ call[c].allTickets[i].assignee_id = NullId
                           /\ call[c].allTickets[i].group_id = 5
                           /\ differenceInMinutes(call[c].now, call[c].allTickets[i].created_at) = 31
        /\ call[c].allTickets[2].id = 2
        /\ call[c].metrics.longestWait = [time |-> 31, ticketId |-> 1]

\* C24: in every state of the fold a group's wait-breach count is at most
\* its new count and its handle-breach count at most its open count, and
\* the global breach counts are at most totalNew and totalOpen.
C24_BreachWithinCounts ==
    [](\A c \in Cycles :
         /\ call[c].metrics.breachedWaitCount <= call[c].metrics.totalNew
         /\ call[c].metrics.breachedHandleCount <= call[c].metrics.totalOpen
         /\ \A i \in 1..Len(call[c].groupMap) :
               LET g == call[c].groupMap[i]
               IN  /\ g.breachedWait <= g.newEmail + g.newMsg
                   /\ g.breachedAHT <= g.openEmail + g.openMsg)

C24_Witness ==
    \E c \in Cycles :
        /\ call[c].pc = "fold"
        /\ call[c].metrics.totalNew = 1 /\ call[c].metrics.breachedWaitCount = 0
        /\ call[c].metrics.totalOpen = 1 /\ call[c].metrics.breachedHandleCount = 1
        /\ \E i \in 1..Len(call[c].groupMap) :
              /\ call[c].groupMap[i].breachedAHT = 1
              /\ call[c].groupMap[i].openEmail = 1 /\ call[c].groupMap[i].openMsg = 0

\* C25: in every state of the fold every group's totalBreached is the sum
\* of its breachedWait and its breachedAHT.
C25_TotalBreachedIsSum ==
    [](\A c \in Cycles : \A i \in 1..Len(call[c].groupMap) :
         call[c].groupMap[i].totalBreached =
            call[c].groupMap[i].breachedWait + call[c].groupMap[i].breachedAHT)

C25_Witness ==
    \E c \in Cycles :
        /\ call[c].pc = "fold"
        /\ \E i \in 1..Len(call[c].groupMap) :
              /\ call[c].groupMap[i].breachedWait = 1
              /\ call[c].groupMap[i].breachedAHT = 1
              /\ call[c].groupMap[i].totalBreached = 2

\* C26: no step other than the end of a refresh cycle changes rawData, so
\* selection changes, sort changes and the renders they cause leave it, the
\* order of its groups included, as the last ended cycle stored it.
C26_BaseAggregateUntouched ==
    [][/\ last' = last => rawData' = rawData
       /\ (client /\ last' # last) => rawData' = call'[last'].metrics]_vars

C26_Witness ==
    /\ rawData # Null /\ last # 0
    /\ rawData = call[last].metrics
    /\ sortConfig = [key |-> "name", direction |-> "asc"]
    /\ Len(rawData.groups) = 2 /\ selectedGroupIds = {5}
    /\ rawData.groups[1].id = 5 /\ rawData.groups[2].id = 7
    /\ Len(Shown.groups) = 1

\* C27 as stated: for every ticket the fold steps over, the minutes it
\* computes from created_at and from updated_at are not negative, also when
\* the timestamp lies after `now`.
C27_MinutesNonNegative ==
    [][\A c \in Cycles :
         StepsOverKnown(c) =>
            /\ differenceInMinutes(call[c].now, Current(c).created_at) >= 0
            /\ differenceInMinutes(call[c].now, Current(c).updated_at) >= 0]_vars

\* the map fetchTicketData seeds from the listing l when called with targets
SeededFrom(l, targets) ==
    LET Wanted(g) == Len(targets) = 0 \/ \E k \in 1..Len(targets) : targets[k] = g.id
        kept == SelectSeq(l, Wanted)
    IN  [i \in 1..Len(kept) |-> ZeroGroupMetric(kept[i])]

\* C28: when the groups request has settled the map holds a zeroed
\* GroupMetric for every listed group if targetGroupIds is empty and for
\* exactly the listed groups among targetGroupIds otherwise; and a ticket of
\* a listed group outside a non-empty targetGroupIds changes no counter.
C28_SeededByTargets ==
    [][\A c \in Cycles :
         /\ (call[c].pc = "groups" /\ call'[c].pc # "groups") =>
               \E l \in srv.listings :
                   call'[c].groupMap = SeededFrom(l, call[c].targetGroupIds)
         /\ (/\ call[c].pc = "fold" /\ call'[c].idx = call[c].idx + 1
             /\ Len(call[c].targetGroupIds) > 0
             /\ Current(c).group_id \in KnownIds \ SeqToSet(call[c].targetGroupIds)) =>
               (call'[c].metrics = call[c].metrics /\ call'[c].groupMap = call[c].groupMap)]_vars

C28_Witness ==
    \E c \in Cycles :
        /\ call[c].pc = "fold" /\ call[c].idx = 2
        /\ call[c].targetGroupIds = <<5>>
        /\ Len(call[c].groupMap) = 1 /\ call[c].groupMap[1].id = 5
        /\ call[c].allTickets[1].status = "open" /\ call[c].allTickets[1].group_id = 7
        /\ call[c].allTickets[2].status = "new" /\ call[c].allTickets[2].group_id = 5
        /\ call[c].metrics.totalOpen = 0 /\ call[c].metrics.totalNew = 1

\* the four per-channel counters of a group
ChannelCounts(g) == <<g.newMsg, g.newEmail, g.openMsg, g.openEmail>>

\* what a ticket adds to the per-channel counters of its group
ChannelStep(t) ==
    LET msg == t.channel \in MESSAGING
    IN  <<IF t.status = "new" /\ msg THEN 1 ELSE 0,
          IF t.status = "new" /\ ~msg THEN 1 ELSE 0,
          IF t.status = "open" /\ msg THEN 1 ELSE 0,
          IF t.status = "open" /\ ~msg THEN 1 ELSE 0>>

\* C29: a fold step over a new or open ticket of a group of the map adds one
\* to exactly one of that group's two channel counters of the ticket's
\* status: the messaging one if the ticket's channel is on the messaging
\* list, the email one for any other channel, known or not; the counters of
\* the other status and of the other groups stay.
C29_ChannelCounters ==
    [][\A c \in Cycles :
         (StepsOverKnown(c) /\ Current(c).status \in {"new", "open"}) =>
            \A i \in 1..Len(call[c].groupMap) :
               \A k \in 1..4 :
                  ChannelCounts(call'[c].groupMap[i])[k] =
                     ChannelCounts(call[c].groupMap[i])[k]
                     + (IF call[c].groupMap[i].id = Current(c).group_id
                        THEN ChannelStep(Current(c))[k] ELSE 0)]_vars

C29_Witness ==
    \E c \in Cycles :
        /\ call[c].pc = "fold" /\ call[c].idx = 2
        /\ call[c].allTickets[1].status = "open" /\ call[c].allTickets[1].channel = "web"
        /\ call[c].allTickets[2].status = "new" /\ call[c].allTickets[2].channel = "chat"
        /\ call[c].allTickets[1].group_id = 5 /\ call[c].allTickets[2].group_id = 5
        /\ \E i \in 1..Len(call[c].groupMap) :
              ChannelCounts(call[c].groupMap[i]) = <<1, 0, 0, 1>>

NumericSortConfigs == [key : SortKeys \ {"name"}, direction : {"asc", "desc"}]

\* C30: under an explicit sort on a numeric column the displayed groups are
\* the selected groups, each once, in non-decreasing order of the column for
\* 'asc' and in non-increasing order for 'desc'; groups that tie on the
\* column keep the order of the aggregate, whatever their breach counts.
C30_ExplicitNumericOrder ==
    [](rawData # Null =>
         \A cfg \in NumericSortConfigs :
            LET in == FilterSelected(rawData.groups, selectedGroupIds)
                out == processedData(rawData, selectedGroupIds, cfg).groups
            IN  /\ Len(out) = Len(in)
                /\ SeqToSet(out) = SeqToSet(in)
                /\ \A i, j \in 1..Len(out) :
                      i < j =>
                         /\ cfg.direction = "asc" => out[i][cfg.key] <= out[j][cfg.key]
                         /\ cfg.direction = "desc" => out[i][cfg.key] >= out[j][cfg.key]
                         /\ out[i][cfg.key] = out[j][cfg.key] =>
                               PosOf(in, out[i].id) < PosOf(in, out[j].id))

C30_Witness ==
    /\ rawData # Null
    /\ sortConfig = [key |-> "newMsg", direction |-> "asc"]
    /\ Len(Shown.groups) = 2
    /\ Shown.groups[1].newMsg < Shown.groups[2].newMsg
    /\ Shown.groups[1].totalBreached < Shown.groups[2].totalBreached
    /\ Shown.groups # processedData(rawData, selectedGroupIds, Null).groups

\* C31: in every state of the fold the global longestWait.time is the
\* greatest of the groups' longestEmailWait and longestMsgWait, and the
\* global longestHandle.time the greatest of their longestEmailAHT and
\* longestMsgAHT (0 over no group).
C31_GlobalLongestIsGroupMax ==
    [](\A c \in Cycles :
         LET G == call[c].groupMap
             I == 1..Len(G)
         IN  /\ call[c].metrics.longestWait.time =
                   MaxOver([i \in I |-> Max2(G[i].longestEmailWait, G[i].longestMsgWait)], I)
             /\ call[c].metrics.longestHandle.time =
                   MaxOver([i \in I |-> Max2(G[i].longestEmailAHT, G[i].longestMsgAHT)], I))

C31_Witness ==
    \E c \in Cycles :
        /\ call[c].pc = "fold" /\ call[c].idx = 2 /\ Len(call[c].groupMap) = 2
        /\ call[c].metrics.longestWait.time = 31
        /\ call[c].metrics.longestHandle.time = 21
        /\ \E i \in 1..2 :
              /\ call[c].groupMap[i].longestEmailWait = 31
              /\ call[c].groupMap[3 - i].longestMsgAHT = 0
              /\ call[c].groupMap[i].longestMsgAHT = 21

\* C32: a refresh cycle whose fetchTicketData call throws for want of a
\* client leaves the base aggregate, the last-updated time, the selection and
\* the stored selection as they were, and ends with loading = FALSE.
C32_FailedCycleChangesNothing ==
    [][\A c \in Cycles :
         (call[c].pc = "idle" /\ call'[c].pc = "rejected") =>
            /\ rawData' = rawData
            /\ lastUpdated' = lastUpdated
            /\ selectedGroupIds' = selectedGroupIds
            /\ storage' = storage
            /\ loading' = FALSE]_vars

C32_Witness ==
    /\ ~client
    /\ call[1].pc = "rejected" /\ call[2].pc = "rejected" /\ call[2].trigger = "click"
    /\ rawData = Null /\ lastUpdated = 0 /\ loading = FALSE
    /\ selectedGroupIds = {5, StaleId}

\* C33 as stated: whenever loading is FALSE no refresh cycle is in flight,
\* also when a click on Refresh or an interval tick overlaps another cycle.
C33_LoadingCoversInFlight ==
    ~loading => \A c \in Cycles : ~InFlight(c)

====
